---------------------------- MODULE Spec2Model ----------------------------
(***************************************************************************)
(* One run of the Streamlit script src/app.py: the ticker text is parsed   *)
(* and validated, the budget and the button are read, prices are fetched   *)
(* and forward-filled, and the optimization block calls the PyPortfolioOpt *)
(* stages one after the other inside a single try/except.                  *)
(*                                                                         *)
(* Strings are sequences of one-character strings.  A price matrix is a    *)
(* sequence of rows, each row a sequence with one cell per ticker; a cell  *)
(* is a positive price or NaN.  The PyPortfolioOpt, matplotlib and         *)
(* yfinance calls are calls into code that is not part of app.py: each     *)
(* either returns or raises, and the model keeps which calls were made.    *)
(***************************************************************************)
EXTENDS Integers, Sequences, FiniteSets, TLC

VARIABLES ticker_input, tickers, portfolio_value, analyze_button,
          data, data_filled, latest_prices, ran, e, ui, pc

vars == <<ticker_input, tickers, portfolio_value, analyze_button,
          data, data_filled, latest_prices, ran, e, ui, pc>>

---------------------------------------------------------------------------
(* Bounds of the model *)

\* the ticker text holds at most MaxFields comma-separated fields
MaxFields == 6
\* a fetched price matrix holds at most MaxRows rows
MaxRows == 3

(* Program constants *)

\* st.number_input(min_value=1000, step=500)
MinBudget == 1000
BudgetStep == 500
\* len(tickers) < 1 or len(tickers) > 5
MinTickers == 1
MaxTickers == 5
\* a missing cell of a DataFrame
NaN == 0

---------------------------------------------------------------------------
(* Input sets *)

\* the text between two commas, as the user may type it
FieldTexts == { <<>>, <<" ">>, <<"a">>, <<" ", "b", " ">> }

RECURSIVE Join(_)
Join(fs) ==
    IF Len(fs) = 0 THEN <<>>
    ELSE IF Len(fs) = 1 THEN fs[1]
    ELSE fs[1] \o <<",">> \o Join(Tail(fs))

\* every text of 1..n fields
TextsUpTo(n) ==
    { Join(fs) : fs \in UNION { [1..k -> FieldTexts] : k \in 1..n } }

\* texts naming one or two tickers, for the runs that explore price matrices
FewTickerTexts == { <<"a">>, <<"a", ",", " ", "b", " ">>, <<",", "a", ",", " ">> }

Budgets == { MinBudget, MinBudget + BudgetStep }

Cells == { NaN, 1, 2 }

\* every matrix of 0..rows rows and cols columns
Matrices(rows, cols) ==
    UNION { [1..r -> [1..cols -> Cells]] : r \in 0..rows }

\* a single dense one-row matrix and the empty one
PlainMatrices(cols) ==
    { <<>>, << [c \in 1..cols |-> 1] >> }

---------------------------------------------------------------------------
(* Line 17: [t.strip().upper() for t in ticker_input.split(",") if t.strip()] *)

RECURSIVE SplitFrom(_, _, _)
SplitFrom(s, i, cur) ==
    IF i > Len(s) THEN << cur >>
    ELSE IF s[i] = "," THEN << cur >> \o SplitFrom(s, i + 1, <<>>)
    ELSE SplitFrom(s, i + 1, Append(cur, s[i]))

\* str.split(","): always at least one field
Split(s) == SplitFrom(s, 1, <<>>)

IsSpace(ch) == ch = " "

RECURSIVE LStrip(_)
LStrip(s) ==
    IF Len(s) > 0 /\ IsSpace(s[1]) THEN LStrip(Tail(s)) ELSE s

RECURSIVE RStrip(_)
RStrip(s) ==
    IF Len(s) > 0 /\ IsSpace(s[Len(s)])
    THEN RStrip(SubSeq(s, 1, Len(s) - 1))
    ELSE s

Strip(s) == RStrip(LStrip(s))

UpperChar(ch) ==
    CASE ch = "a" -> "A"
      [] ch = "b" -> "B"
      [] OTHER -> ch

Upper(s) == [i \in 1..Len(s) |-> UpperChar(s[i])]

\* the "if ticker.strip()" filter: an empty string is falsy
Keeps(f) == Strip(f) # <<>>

RECURSIVE Select(_)
Select(fs) ==
    IF Len(fs) = 0 THEN <<>>
    ELSE IF Keeps(fs[1]) THEN << Upper(Strip(fs[1])) >> \o Select(Tail(fs))
    ELSE Select(Tail(fs))

ParseTickers(s) == Select(Split(s))

\* variant of ValidCount: the upper limit off by one
ValidCountUpTo6(n) == n >= MinTickers /\ n <= MaxTickers + 1
\* line 20, negated: the else branch is taken
ValidCount(n) == ~ (n < MinTickers \/ n > MaxTickers)

---------------------------------------------------------------------------
(* Lines 45-59: missing values *)

\* DataFrame.ffill(): each missing cell takes the last valid value above it
RECURSIVE LastValid(_, _, _)
LastValid(m, r, c) ==
    IF m[r][c] # NaN THEN m[r][c]
    ELSE IF r = 1 THEN NaN
    ELSE LastValid(m, r - 1, c)

\* variant of FFill: nothing is filled
FFillNone(m) == m
FFill(m) ==
    [r \in 1..Len(m) |-> [c \in 1..Len(m[r]) |-> LastValid(m, r, c)]]

\* data_filled.isnull().sum().sum() > 0
HasNull(m) == \E r \in 1..Len(m) : \E c \in 1..Len(m[r]) : m[r][c] = NaN

\* variant of IsEmpty: a single row counts as empty too
IsEmptyBelowTwo(m) == Len(m) < 2
\* DataFrame.empty: an axis of length 0
IsEmpty(m) == Len(m) = 0 \/ Len(m[1]) = 0

---------------------------------------------------------------------------
(* Lines 67-105: the calls of the try block, in program order *)

StageOrder ==
    << "mean_historical_return", "ledoit_wolf", "EfficientFrontier",
       "max_sharpe", "clean_weights", "portfolio_performance",
       "DiscreteAllocation", "greedy_portfolio", "pie_chart" >>

\* what a returning call lets the script display before the next call
Shows(stage) ==
    CASE stage = "clean_weights" -> << "dataframe:weights" >>
      [] stage = "portfolio_performance" -> << "write:performance" >>
      [] stage = "greedy_portfolio" ->
             << "dataframe:shares", "write:remaining_cash" >>
      [] stage = "pie_chart" -> << "pyplot" >>
      [] OTHER -> <<>>

NextStage == StageOrder[Len(ran) + 1]

---------------------------------------------------------------------------
(* Initial states *)

InitWith(texts) ==
    /\ ticker_input \in texts
    /\ tickers = <<>>
    /\ portfolio_value = 0
    /\ analyze_button = FALSE
    /\ data = <<>>
    /\ data_filled = <<>>
    /\ latest_prices = <<>>
    /\ ran = <<>>
    /\ e = "None"
    /\ ui = <<>>
    /\ pc = "start"

Init == InitWith(FewTickerTexts)

InitUI == InitWith(TextsUpTo(MaxFields))

---------------------------------------------------------------------------
(* Actions *)

\* lines 16-21
ParseAndValidate ==
    /\ pc = "start"
    /\ tickers' = ParseTickers(ticker_input)
    /\ IF ValidCount(Len(tickers'))
       THEN /\ pc' = "inputs"
            /\ ui' = ui
       ELSE /\ pc' = "done"
            /\ ui' = Append(ui, "error:between_1_and_5")
    /\ UNCHANGED <<ticker_input, portfolio_value, analyze_button, data,
                   data_filled, latest_prices, ran, e>>

\* lines 24-37
ReadInputs ==
    /\ pc = "inputs"
    /\ \E pv \in Budgets, pressed \in BOOLEAN :
          /\ portfolio_value' = pv
          /\ analyze_button' = pressed
          /\ IF ~ pressed
             THEN /\ pc' = "done"
                  /\ ui' = ui
             ELSE IF Len(tickers) = 0
             THEN /\ pc' = "done"
                  /\ ui' = Append(ui, "error:select_at_least_one")
             ELSE /\ pc' = "fetch"
                  /\ ui' = Append(ui, "info:fetching")
    /\ UNCHANGED <<ticker_input, tickers, data, data_filled, latest_prices,
                   ran, e>>

\* lines 40-41: yf.download returns a frame with one column per ticker.
\* The call stands outside the try block; an exception raised by it ends
\* the script before line 44 and is left out of the model.
Fetch(rows) ==
    /\ pc = "fetch"
    /\ \E m \in Matrices(rows, Len(tickers)) : data' = m
    /\ pc' = "clean"
    /\ UNCHANGED <<ticker_input, tickers, portfolio_value, analyze_button,
                   data_filled, latest_prices, ran, e, ui>>

FetchPlain ==
    /\ pc = "fetch"
    /\ \E m \in PlainMatrices(Len(tickers)) : data' = m
    /\ pc' = "clean"
    /\ UNCHANGED <<ticker_input, tickers, portfolio_value, analyze_button,
                   data_filled, latest_prices, ran, e, ui>>

\* lines 44-63
CleanData ==
    /\ pc = "clean"
    /\ data_filled' = FFill(data)
    /\ LET nulls == IF HasNull(data_filled')
                    THEN "warning:still_missing"
                    ELSE "success:no_missing"
           seen == ui \o << "info:cleaning", "write:missing_values", nulls >>
       IN  IF IsEmpty(data_filled')
           THEN /\ ui' = Append(seen, "error:data_empty")
                /\ pc' = "stopped"
           ELSE /\ ui' = seen \o << "success:data_ready", "info:optimizing" >>
                /\ pc' = "try"
    /\ UNCHANGED <<ticker_input, tickers, portfolio_value, analyze_button,
                   data, latest_prices, ran, e>>

\* a call of the try block returns
CallReturns ==
    /\ pc = "try"
    /\ Len(ran) < Len(StageOrder)
    /\ ran' = Append(ran, NextStage)
    /\ ui' = ui \o Shows(NextStage)
    \* line 87 follows portfolio_performance
    /\ latest_prices' = IF NextStage = "portfolio_performance"
                        THEN data_filled[Len(data_filled)]
                        ELSE latest_prices
    /\ pc' = IF Len(ran') = Len(StageOrder) THEN "done" ELSE "try"
    /\ UNCHANGED <<ticker_input, tickers, portfolio_value, analyze_button,
                   data, data_filled, e>>

\* variant of CallRaises: the exception is dropped and the block goes on
CallRaisesAndGoesOn ==
    /\ pc = "try"
    /\ Len(ran) < Len(StageOrder)
    /\ ran' = Append(ran, NextStage)
    /\ e' = NextStage
    /\ pc' = IF Len(ran') = Len(StageOrder) THEN "except" ELSE "try"
    /\ UNCHANGED <<ticker_input, tickers, portfolio_value, analyze_button,
                   data, data_filled, latest_prices, ui>>

\* a call of the try block raises: control leaves the block
CallRaises ==
    /\ pc = "try"
    /\ Len(ran) < Len(StageOrder)
    /\ ran' = Append(ran, NextStage)
    /\ e' = NextStage
    /\ pc' = "except"
    /\ UNCHANGED <<ticker_input, tickers, portfolio_value, analyze_button,
                   data, data_filled, latest_prices, ui>>

\* lines 104-105
Except ==
    /\ pc = "except"
    /\ ui' = Append(ui, "error:optimization")
    /\ pc' = "done"
    /\ UNCHANGED <<ticker_input, tickers, portfolio_value, analyze_button,
                   data, data_filled, latest_prices, ran, e>>

Next ==
    \/ ParseAndValidate
    \/ ReadInputs
    \/ Fetch(MaxRows)
    \/ CleanData
    \/ CallReturns
    \/ CallRaises
    \/ Except

Spec == Init /\ [][Next]_vars

NextUI ==
    \/ ParseAndValidate
    \/ ReadInputs
    \/ FetchPlain
    \/ CleanData
    \/ CallReturns
    \/ CallRaises
    \/ Except

SpecUI == InitUI /\ [][NextUI]_vars

---------------------------------------------------------------------------
(* Helpers of the properties *)

Range(q) == { q[i] : i \in 1..Len(q) }

Count(q, x) == Cardinality({ i \in 1..Len(q) : q[i] = x })

\* the positions that end a field of s: each comma, and the end of the text
FieldEnds(s) == { i \in 1..Len(s) : s[i] = "," } \cup { Len(s) + 1 }

\* the comma-separated fields of s that hold a character other than a space,
\* each named by the position that ends it
NonBlankFields(s) ==
    { b \in FieldEnds(s) :
        \E i \in 1..(b - 1) :
            /\ s[i] \notin { ",", " " }
            /\ \A j \in i..(b - 1) : s[j] # "," }

\* the run went past the button: a fetch was started
Fetching == "info:fetching" \in Range(ui)

\* lines 44-56 were executed
Cleaned == "info:cleaning" \in Range(ui)

\* the try block was entered
Optimizing == "info:optimizing" \in Range(ui)

\* the rows at or above r that hold a value in column c
ValidAbove(m, r, c) == { q \in 1..r : m[q][c] # NaN }

Highest(S) == CHOOSE x \in S : \A y \in S : y <= x

---------------------------------------------------------------------------
(* C9 *)

\* C9: fetching and optimization are reached only when the parsed ticker
\* list (fields split at commas, stripped, upper-cased, blank ones dropped)
\* holds 1 to 5 entries and the button was pressed; with 0 or more than 5
\* entries only the count error is shown and no budget is read, nothing is
\* fetched and no stage runs; the inner "select at least one" error is
\* never shown.
C9_FetchOnlyWithOneToFiveTickers ==
    LET n == Cardinality(NonBlankFields(ticker_input)) IN
    /\ pc # "start" =>
          /\ Len(tickers) = n
          /\ \A i \in 1..Len(tickers) :
                /\ tickers[i] # <<>>
                /\ tickers[i][1] # " "
                /\ tickers[i][Len(tickers[i])] # " "
                /\ \A k \in 1..Len(tickers[i]) : tickers[i][k] \notin {"a", "b", ","}
    /\ (Fetching \/ pc \in {"fetch", "clean", "try", "except", "stopped"}
          \/ ran # <<>> \/ Len(data) > 0) =>
          /\ n >= 1
          /\ n <= 5
          /\ analyze_button
    /\ (pc # "start" /\ (n < 1 \/ n > 5)) =>
          /\ pc = "done"
          /\ ui = << "error:between_1_and_5" >>
          /\ portfolio_value = 0
          /\ ~ analyze_button
          /\ data = <<>>
          /\ ran = <<>>
    /\ "error:select_at_least_one" \notin Range(ui)

\* five tickers typed with padding and one blank field, run to the end
C9_Witness ==
    /\ pc = "done"
    /\ Len(tickers) = 5
    /\ Len(Split(ticker_input)) = 6
    /\ \E i \in 1..Len(ticker_input) : ticker_input[i] = " "
    /\ ran = StageOrder
    /\ e = "None"

---------------------------------------------------------------------------
(* C10 *)

\* C10: the calls of the optimization block run in program order (return
\* estimation, covariance estimation, max-Sharpe solve, weight cleaning,
\* discrete allocation), each at most once; once a call raises no later
\* call runs, none is retried, and the failure is reported exactly once,
\* after which the run is over; without a failure no error is reported.
C10_StagesInOrderFailureReportedOnce ==
    /\ Len(ran) <= Len(StageOrder)
    /\ \A i \in 1..Len(ran) : ran[i] = StageOrder[i]
    /\ e # "None" =>
          /\ ran # <<>>
          /\ ran[Len(ran)] = e
          /\ pc \in {"except", "done"}
          /\ "pyplot" \notin Range(ui)
    /\ pc = "except" => e # "None"
    /\ Count(ui, "error:optimization")
          = (IF pc = "done" /\ e # "None" THEN 1 ELSE 0)

\* the solver raised: four calls were made and the error was shown
C10_Witness ==
    /\ pc = "done"
    /\ e = "max_sharpe"
    /\ Len(ran) = 4
    /\ ui[Len(ui)] = "error:optimization"

---------------------------------------------------------------------------
(* C4 *)

---------------------------------------------------------------------------
(* C5 *)

=============================================================================
